---- MODULE Spec2Model ----
(***************************************************************************)
(* A model of the music-timer crate: TimeSignature, MusicTime,             *)
(* MusicTimeCounter and MusicTimerEngine, together with the recording      *)
(* observer and the polling loop of tests/lib_interface.rs.                *)
(*                                                                         *)
(* A std::time::Duration is the record [secs, nanos] with nanos below one  *)
(* second, as in the standard library. A MusicTime is the record           *)
(* [bar, beat, beat_interval].                                             *)
(***************************************************************************)
EXTENDS Integers, Sequences, FiniteSets, TLC

VARIABLES
    twin,                  \* a second engine with the same signature and tempo
    tempo,                 \* history: the bpm the engine was created with
    time_signature,        \* MusicTimeCounter.time_signature
    current_time,          \* MusicTimeCounter.current_time
    total_time,            \* MusicTimerEngine.total_time
    previous_time,         \* MusicTimerEngine.previous_time
    event_trigger_time,    \* MusicTimerEngine.event_trigger_time
    event_trigger_target,  \* MusicTimerEngine.event_trigger_target
    previous_music_time,   \* MusicTimerEngine.previous_music_time
    state,                 \* the observer: PerformanceState of tests/lib_interface.rs
    end_time,              \* the end time handed to performance_runner
    runner_pc,             \* position of performance_runner: "loop" or "done"
    panicked,              \* a panic has unwound out of pulse
    triggers,              \* history: number of advances made, by pulses or directly
    sets,                  \* history: number of set_music_timer calls
    last                   \* history: what the latest operation did

vars == <<twin, tempo, time_signature, current_time, total_time, previous_time,
          event_trigger_time, event_trigger_target, previous_music_time,
          state, end_time, runner_pc, panicked, triggers, sets, last>>

-----------------------------------------------------------------------------
(* Bounds of the model *)

\* Spec explores the engine up to this many pulses that advance the counter.
MaxTriggers == 4

\* Spec explores the engine up to this many calls of set_music_timer.
MaxSets == 1

\* Spec draws the time between two clock readings from 0..MaxDelta halves of
\* the trigger target.
MaxDelta == 4

\* SpecRun: a sleep of performance_runner lasts 1..MaxSleeps sleep durations.
MaxSleeps == 2

\* a delay between two pulses of the drift tests lasts at most this many
\* target sleep durations, and never more than the trigger target
MaxDriftSleeps == 3

\* the MusicTime values and time signatures handed to the operations of
\* MusicTime: beats 0..MaxBeat, numerators 0..MaxNumerator
MaxBeat == 5

MaxNumerator == 4

\* the advances applied one after the other to a MusicTime
MaxAdvances == 2

\* the tempos converted to durations are the whole bpm from 30 to MaxBpm
MaxBpm == 200

\* the pulses made by an engine whose tempo conversions are examined
MaxTempoPulses == 2

\* pulses that advance the counter in SpecBeats
MaxBeatTriggers == 9

\* SpecTwin: advances of each engine, and half targets in a delta
MaxTwinTriggers == 3
MaxTwinDelta == 2

-----------------------------------------------------------------------------
(* std::time::Duration *)

NANOS_PER_SEC == 1000000000

Duration(secs, nanos) == [secs |-> secs, nanos |-> nanos]

DurationDefault == Duration(0, 0)

DurationFromNanos(n) == Duration(n \div NANOS_PER_SEC, n % NANOS_PER_SEC)

DurAdd(a, b) ==
    LET n == a.nanos + b.nanos
    IN  IF n >= NANOS_PER_SEC
        THEN Duration(a.secs + b.secs + 1, n - NANOS_PER_SEC)
        ELSE Duration(a.secs + b.secs, n)

DurGe(a, b) == a.secs > b.secs \/ (a.secs = b.secs /\ a.nanos >= b.nanos)

DurLt(a, b) == ~DurGe(a, b)

\* a - b, defined where a >= b (the subtraction panics otherwise)
DurSub(a, b) ==
    IF a.nanos >= b.nanos
    THEN Duration(a.secs - b.secs, a.nanos - b.nanos)
    ELSE Duration(a.secs - b.secs - 1, a.nanos + NANOS_PER_SEC - b.nanos)

\* Duration / 2
DurHalf(a) ==
    Duration(a.secs \div 2, (a.secs % 2) * (NANOS_PER_SEC \div 2) + a.nanos \div 2)

RECURSIVE DurTimes(_, _)
DurTimes(a, j) == IF j = 0 THEN DurationDefault ELSE DurAdd(DurTimes(a, j - 1), a)

\* Duration * n for n up to 2000, the nanoseconds multiplied as whole
\* microseconds and a rest so that no product passes 2^31
DurMul(a, n) ==
    LET micros == (a.nanos \div 1000) * n
        rest == (a.nanos % 1000) * n
    IN  DurAdd(Duration(a.secs * n + micros \div 1000000,
                        (micros % 1000000) * 1000),
               Duration(0, rest))

-----------------------------------------------------------------------------
(* f32 arithmetic of the tempo conversions, for a whole bpm in 30..240.    *)
(* An f32 has a 24-bit significand; every operation rounds its exact       *)
(* result to nearest, ties to even.                                        *)

RECURSIVE Pow2(_)
Pow2(n) == IF n = 0 THEN 1 ELSE 2 * Pow2(n - 1)

\* n / d rounded to the nearest integer, ties to even
RoundHalfEven(n, d) ==
    LET q == n \div d
        r == n % d
    IN  IF 2 * r > d \/ (2 * r = d /\ q % 2 = 1) THEN q + 1 ELSE q

\* 60.0 / bpm as an f32: [m, k] stands for m / 2^k, 2^23 <= m <= 2^24
F32SecondsPerBeat(bpm) ==
    LET k == CHOOSE e \in 0..25 :
                 /\ (60 * Pow2(e)) \div bpm >= Pow2(23)
                 /\ (60 * Pow2(e)) \div bpm < Pow2(24)
    IN  [m |-> RoundHalfEven(60 * Pow2(k), bpm), k |-> k]

\* (m / 2^k) * 1000000000.0 as an f32, then `as u64`. 10^9 = 1953125 * 2^9.
\* The exact product m * 1953125 is held as hi * 2^24 + lo.
F32TimesBillionAsU64(m, k) ==
    LET a   == m \div 4096
        b   == m % 4096
        c   == 1953125 \div 4096
        d   == 1953125 % 4096
        mid == a * d + b * c
        low == (mid % 4096) * 4096 + b * d
        hi  == a * c + mid \div 4096 + low \div Pow2(24)
        lo  == low % Pow2(24)
        \* bits of the product below its 24 leading ones
        drop == CHOOSE s \in 1..24 : Pow2(s - 1) <= hi /\ hi < Pow2(s)
        keep == hi * Pow2(24 - drop) + lo \div Pow2(drop)
        rest == lo % Pow2(drop)
        half == Pow2(drop - 1)
        mant == IF rest > half \/ (rest = half /\ keep % 2 = 1) THEN keep + 1 ELSE keep
        \* the f32 is mant * 2^(drop + 9 - k), a whole number when k <= drop + 9
    IN  IF drop + 9 >= k
        THEN mant * Pow2(drop + 9 - k)
        ELSE mant \div Pow2(k - drop - 9)

-----------------------------------------------------------------------------
(* TimeSignature *)

\* the values of a u8 are 0..U8 - 1
U8 == 256

TimeSignature(numerator, denominator) ==
    [numerator |-> numerator, denominator |-> denominator]

\* is_valid without the test of the numerator
is_valid_any_numerator(sig) == sig.denominator \in {2, 4, 8, 16, 32}

is_valid(sig) ==
    /\ sig.numerator > 0
    /\ sig.denominator \in {2, 4, 8, 16, 32}

-----------------------------------------------------------------------------
(* MusicTime *)

U16 == 65536

MusicTime(bar, beat, beat_interval) ==
    [bar |-> bar, beat |-> beat, beat_interval |-> beat_interval]

MusicTimeDefault == MusicTime(1, 1, 1)

\* advance_beat with `>` written for `>=`
advance_beat_past(t, sig) ==
    IF t.beat > sig.numerator
    THEN [t EXCEPT !.beat = 1, !.bar = (t.bar + 1) % U16]
    ELSE [t EXCEPT !.beat = t.beat + 1]

\* `self.bar += 1` on a u16: wraps in a build without overflow checks
advance_beat(t, sig) ==
    IF t.beat >= sig.numerator
    THEN [t EXCEPT !.beat = 1, !.bar = (t.bar + 1) % U16]
    ELSE [t EXCEPT !.beat = t.beat + 1]

INTERVAL_RESOLUTION == 16

\* advance_beat_interval with the whole resolution taken for its half
advance_beat_interval_whole(t, sig) ==
    IF t.beat_interval >= INTERVAL_RESOLUTION
    THEN advance_beat([t EXCEPT !.beat_interval = 1], sig)
    ELSE [t EXCEPT !.beat_interval = t.beat_interval + 1]

advance_beat_interval(t, sig) ==
    IF t.beat_interval >= INTERVAL_RESOLUTION \div 2
    THEN advance_beat([t EXCEPT !.beat_interval = 1], sig)
    ELSE [t EXCEPT !.beat_interval = t.beat_interval + 1]

\* advance_beat reaches `self.bar += 1` with the bar at u16::MAX: a panic in
\* a build with overflow checks
advance_beat_overflows(t, sig) == t.beat >= sig.numerator /\ t.bar = U16 - 1

\* advance_beat_interval reaches `self.bar += 1` with the bar at u16::MAX:
\* a panic in a build with overflow checks
advance_overflows(t, sig) ==
    /\ t.beat_interval >= INTERVAL_RESOLUTION \div 2
    /\ t.beat >= sig.numerator
    /\ t.bar = U16 - 1

\* the sum partial_cmp compares, in u16 arithmetic
time_sum(t) == (t.bar * 100 + t.beat * 10 + t.beat_interval) % U16

\* self < other
partial_lt(self, other) == time_sum(self) < time_sum(other)

\* the sum does not fit a u16: a panic in a build with overflow checks
time_sum_overflows(t) == t.bar * 100 + t.beat * 10 + t.beat_interval >= U16

\* self.partial_cmp(other), in a build without overflow checks
partial_cmp(self, other) ==
    IF time_sum(self) < time_sum(other) THEN "Less"
    ELSE IF time_sum(self) = time_sum(other) THEN "Equal"
    ELSE "Greater"

-----------------------------------------------------------------------------
(* MusicTimeCounter *)

\* beat_target_frames with bpm / 60.0 computed for 60.0 / bpm
beat_target_frames_inverted(bpm) ==
    LET spb == F32SecondsPerBeat(3600 \div bpm)
    IN  DurationFromNanos(F32TimesBillionAsU64(spb.m, spb.k))

beat_target_frames(bpm) ==
    LET spb == F32SecondsPerBeat(bpm)
    IN  DurationFromNanos(F32TimesBillionAsU64(spb.m, spb.k))

\* beat_interval_target_frames with INTERVAL_RESOLUTION = 16.0
beat_interval_target_frames_sixteenths(bpm) ==
    LET spb == F32SecondsPerBeat(bpm)
    IN  DurationFromNanos(F32TimesBillionAsU64(spb.m, spb.k + 4))

\* INTERVAL_RESOLUTION = 16.0 / 2.0: the division by 8.0 is exact in f32
beat_interval_target_frames(bpm) ==
    LET spb == F32SecondsPerBeat(bpm)
    IN  DurationFromNanos(F32TimesBillionAsU64(spb.m, spb.k + 3))

-----------------------------------------------------------------------------
(* The observer: PerformanceState of tests/lib_interface.rs *)

PerformanceStateNew ==
    [current_time |-> MusicTimeDefault,
     count_bars |-> 0,
     count_beats |-> 0,
     count_beat_intervals |-> 0,
     music_events |-> <<>>]

Call(callback, time) == [callback |-> callback, time |-> time]

\* the counters are u8
on_beat_interval(s, now_time) ==
    [s EXCEPT !.current_time = now_time,
              !.count_beat_intervals = (@ + 1) % 256,
              !.music_events = Append(@, Call("on_beat_interval", now_time))]

on_beat(s, now_time) ==
    [s EXCEPT !.current_time = now_time,
              !.count_beats = (@ + 1) % 256,
              !.music_events = Append(@, Call("on_beat", now_time))]

on_bar(s, now_time) ==
    [s EXCEPT !.current_time = now_time,
              !.count_bars = (@ + 1) % 256,
              !.music_events = Append(@, Call("on_bar", now_time))]

\* the observer after the engine has made the calls, in order
RECURSIVE Dispatch(_, _)
Dispatch(s, calls) ==
    IF calls = <<>>
    THEN s
    ELSE LET c == Head(calls)
             s1 == CASE c.callback = "on_beat_interval" -> on_beat_interval(s, c.time)
                     [] c.callback = "on_beat" -> on_beat(s, c.time)
                     [] c.callback = "on_bar" -> on_bar(s, c.time)
         IN  Dispatch(s1, Tail(calls))

-----------------------------------------------------------------------------
(* MusicTimerEngine *)

\* the previous music time of a new engine set to the counter's first time
Sentinel_default == MusicTimeDefault

\* previous_music_time of a new engine
Sentinel == MusicTime(0, 0, 0)

\* history record of an operation
Op(op, delta, accumulated, advanced, cached, previous, calls) ==
    [op |-> op,                    \* "new", "pulse", "time_reversed", "panic", ...
     delta |-> delta,              \* pulse: time_delta
     accumulated |-> accumulated,  \* pulse: event_trigger_time before the pulse
     advanced |-> advanced,        \* pulse: is_beat_interval_advanced
     cached_current_time |-> cached,   \* the counter's time before the operation
     previous_music_time |-> previous, \* previous_music_time before the operation
     calls |-> calls,              \* callbacks made, in order
     time |-> Sentinel,            \* the MusicTime handed to the operation
     result |-> "none",            \* partial_cmp: "Less", "Equal" or "Greater"
     duration |-> DurationDefault] \* the Duration a tempo conversion returned

\* history record of a tempo conversion
TempoOp(op, duration) ==
    [Op(op, DurationDefault, DurationDefault, FALSE, Sentinel, Sentinel, <<>>)
        EXCEPT !.duration = duration]

\* history record of an operation on a MusicTime or a MusicTimeCounter
TimeOp(op, cached, time, result) ==
    [Op(op, DurationDefault, DurationDefault, FALSE, cached, Sentinel, <<>>)
        EXCEPT !.time = time, !.result = result]

\* a second engine made by MusicTimerEngine::new for the same tempo, with
\* the calls each of the two engines has made, pulse by pulse, and whether
\* every set_music_timer call found both counters advanced as many times
TwinNew(bpm) ==
    [total_time |-> DurationDefault,
     event_trigger_time |-> beat_interval_target_frames(bpm),
     current_time |-> MusicTime(1, 1, 1),
     previous_music_time |-> Sentinel,
     triggers |-> 0,
     calls |-> <<>>,
     first_calls |-> <<>>,
     aligned |-> TRUE]

\* NewUntil with no trigger time accumulated at the start
NewUntil_unaccumulated(numerator, denominator, bpm, end) ==
    /\ twin = TwinNew(bpm)
    /\ tempo = bpm
    /\ time_signature = TimeSignature(numerator, denominator)
    /\ current_time = MusicTime(1, 1, 1)
    /\ event_trigger_target = beat_interval_target_frames(bpm)
    /\ total_time = DurationDefault
    /\ previous_time = DurationDefault
    /\ event_trigger_time = DurationDefault
    /\ previous_music_time = Sentinel
    /\ state = PerformanceStateNew
    /\ end_time = end
    /\ runner_pc = "loop"
    /\ panicked = FALSE
    /\ triggers = 0
    /\ sets = 0
    /\ last = Op("new", DurationDefault, DurationDefault, FALSE, Sentinel, Sentinel, <<>>)

\* MusicTimerEngine::new followed by PerformanceState::new, for a loop that
\* runs until `end`
NewUntil(numerator, denominator, bpm, end) ==
    /\ twin = TwinNew(bpm)
    /\ tempo = bpm
    /\ time_signature = TimeSignature(numerator, denominator)
    /\ current_time = MusicTime(1, 1, 1)
    /\ event_trigger_target = beat_interval_target_frames(bpm)
    /\ total_time = DurationDefault
    /\ previous_time = DurationDefault
    /\ event_trigger_time = event_trigger_target
    /\ previous_music_time = Sentinel
    /\ state = PerformanceStateNew
    /\ end_time = end
    /\ runner_pc = "loop"
    /\ panicked = FALSE
    /\ triggers = 0
    /\ sets = 0
    /\ last = Op("new", DurationDefault, DurationDefault, FALSE, Sentinel, Sentinel, <<>>)

\* a new engine and observer; the tests of lib_interface.rs run it until
\* MusicTime(4, numerator, 8)
New(numerator, denominator, bpm) ==
    NewUntil(numerator, denominator, bpm, MusicTime(4, numerator, 8))

\* is_beat_interval_advanced with `>` written for `>=`
is_beat_interval_advanced_strict(trigger_time, target) ==
    DurGe(trigger_time, target) /\ trigger_time # target

\* is_beat_interval_advanced with half the target taken for the target
is_beat_interval_advanced_half(trigger_time, target) ==
    DurGe(trigger_time, DurHalf(target))

is_beat_interval_advanced(trigger_time, target) == DurGe(trigger_time, target)

\* is_beat_changed with the bars compared in place of the beats
is_beat_changed_by_bar(previous, now_time) == previous.bar # now_time.bar

is_beat_changed(previous, now_time) == previous.beat # now_time.beat

\* is_bar_changed with `!=` written for `==`
is_bar_changed_differs(previous, now_time) == previous.bar # now_time.bar

is_bar_changed(previous, now_time) == previous.bar = now_time.bar

\* Callbacks with on_bar called before on_beat
Callbacks_bar_first(cached_current_time, now_time, previous) ==
    <<Call("on_beat_interval", cached_current_time)>>
    \o (IF previous.bar = now_time.bar
        THEN <<Call("on_bar", now_time)>> ELSE <<>>)
    \o (IF previous.beat # now_time.beat
        THEN <<Call("on_beat", now_time)>> ELSE <<>>)

\* Callbacks with on_beat and on_bar handed the cached time
Callbacks_cached(cached_current_time, now_time, previous) ==
    <<Call("on_beat_interval", cached_current_time)>>
    \o (IF previous.beat # now_time.beat
        THEN <<Call("on_beat", cached_current_time)>> ELSE <<>>)
    \o (IF previous.bar = now_time.bar
        THEN <<Call("on_bar", cached_current_time)>> ELSE <<>>)

\* Callbacks with on_beat_interval handed the time after the advance
Callbacks_advanced(cached_current_time, now_time, previous) ==
    <<Call("on_beat_interval", now_time)>>
    \o (IF previous.beat # now_time.beat
        THEN <<Call("on_beat", now_time)>> ELSE <<>>)
    \o (IF previous.bar = now_time.bar
        THEN <<Call("on_bar", now_time)>> ELSE <<>>)

\* the callbacks of a pulse that advances, in the order they are made
Callbacks(cached_current_time, now_time, previous) ==
    <<Call("on_beat_interval", cached_current_time)>>
    \o (IF is_beat_changed(previous, now_time)
        THEN <<Call("on_beat", now_time)>> ELSE <<>>)
    \o (IF is_bar_changed(previous, now_time)
        THEN <<Call("on_bar", now_time)>> ELSE <<>>)

\* Calibrate with the accumulated time reset to zero
Calibrate_reset(trigger_time, target) == DurationDefault

\* Calibrate with the target left in the accumulated time
Calibrate_kept(trigger_time, target) == trigger_time

\* Reset and calibrate drift
Calibrate(trigger_time, target) == DurSub(trigger_time, target)

\* pulse of the second engine with two advances made when two targets
\* are accumulated
TwinPulsed_caught_up(e, delta) ==
    LET now == DurAdd(e.total_time, delta)
        time_delta == DurSub(now, e.total_time)
        trigger_time == DurAdd(e.event_trigger_time, time_delta)
        advanced == is_beat_interval_advanced(trigger_time, event_trigger_target)
        twice == DurGe(trigger_time, DurMul(event_trigger_target, 2))
        once == advance_beat_interval(e.current_time, time_signature)
        now_time == IF twice THEN advance_beat_interval(once, time_signature)
                    ELSE once
    IN  IF advanced
        THEN [e EXCEPT !.total_time = now,
                       !.event_trigger_time = Calibrate(trigger_time, event_trigger_target),
                       !.current_time = now_time,
                       !.previous_music_time = now_time,
                       !.triggers = @ + 1,
                       !.calls = Append(@, Callbacks(e.current_time, now_time,
                                                     e.previous_music_time))]
        ELSE [e EXCEPT !.total_time = now, !.event_trigger_time = trigger_time]

\* pulse of the second engine e, its clock reading being its total_time + delta
TwinPulsed(e, delta) ==
    LET now == DurAdd(e.total_time, delta)
        time_delta == DurSub(now, e.total_time)
        trigger_time == DurAdd(e.event_trigger_time, time_delta)
        advanced == is_beat_interval_advanced(trigger_time, event_trigger_target)
        now_time == advance_beat_interval(e.current_time, time_signature)
    IN  IF advanced
        THEN [e EXCEPT !.total_time = now,
                       !.event_trigger_time = Calibrate(trigger_time, event_trigger_target),
                       !.current_time = now_time,
                       !.previous_music_time = now_time,
                       !.triggers = @ + 1,
                       !.calls = Append(@, Callbacks(e.current_time, now_time,
                                                     e.previous_music_time))]
        ELSE [e EXCEPT !.total_time = now, !.event_trigger_time = trigger_time]

\* pulse, the clock reading being total_time + delta; it returns normally.
\* The step that makes the call says what becomes of the second engine.
Pulse(delta) ==
    LET now == DurAdd(total_time, delta)
        time_delta == DurSub(now, total_time)
        trigger_time == DurAdd(event_trigger_time, time_delta)
        advanced == is_beat_interval_advanced(trigger_time, event_trigger_target)
        now_time == advance_beat_interval(current_time, time_signature)
        calls == IF advanced
                 THEN Callbacks(current_time, now_time, previous_music_time)
                 ELSE <<>>
    IN  /\ ~panicked
        /\ previous_time' = total_time
        /\ total_time' = now
        /\ event_trigger_time' =
               IF advanced THEN Calibrate(trigger_time, event_trigger_target)
                           ELSE trigger_time
        /\ current_time' = IF advanced THEN now_time ELSE current_time
        /\ previous_music_time' = IF advanced THEN now_time ELSE previous_music_time
        /\ state' = Dispatch(state, calls)
        /\ triggers' = IF advanced THEN triggers + 1 ELSE triggers
        /\ last' = Op("pulse", time_delta, event_trigger_time, advanced,
                      current_time, previous_music_time, calls)
        /\ UNCHANGED <<tempo, time_signature, event_trigger_target, end_time,
                       runner_pc, panicked, sets>>

\* pulse in a build with overflow checks, the advance overflowing the bar:
\* on_beat_interval has been called and beat_interval and beat are reset when
\* `self.bar += 1` panics
PulseOverflow(delta) ==
    LET now == DurAdd(total_time, delta)
        time_delta == DurSub(now, total_time)
        trigger_time == DurAdd(event_trigger_time, time_delta)
        calls == <<Call("on_beat_interval", current_time)>>
    IN  /\ ~panicked
        /\ is_beat_interval_advanced(trigger_time, event_trigger_target)
        /\ advance_overflows(current_time, time_signature)
        /\ previous_time' = total_time
        /\ total_time' = now
        /\ event_trigger_time' = trigger_time
        /\ current_time' = [current_time EXCEPT !.beat_interval = 1, !.beat = 1]
        /\ state' = Dispatch(state, calls)
        /\ panicked' = TRUE
        /\ last' = Op("panic", time_delta, event_trigger_time, TRUE,
                      current_time, previous_music_time, calls)
        /\ UNCHANGED <<twin, tempo, time_signature, event_trigger_target, previous_music_time,
                       end_time, runner_pc, triggers, sets>>

\* pulse with a clock reading earlier than the previous one taken as a delta
\* of zero: the pulse returns
PulseTimeReversed_clamped(before_start, reading) ==
    /\ ~panicked
    /\ before_start \/ DurLt(reading, total_time)
    /\ previous_time' = total_time
    /\ total_time' = IF before_start THEN total_time ELSE reading
    /\ last' = Op("time_reversed", DurationDefault, event_trigger_time, FALSE,
                  current_time, previous_music_time, <<>>)
    /\ UNCHANGED <<twin, tempo, time_signature, current_time, event_trigger_time,
                   event_trigger_target, previous_music_time, state, end_time,
                   runner_pc, panicked, triggers, sets>>

\* pulse, the clock reading being earlier than the start time (before_start:
\* duration_since fails and expect panics) or not, but earlier than the
\* previous reading (the subtraction of the durations panics)
PulseTimeReversed(before_start, reading) ==
    /\ ~panicked
    /\ before_start \/ DurLt(reading, total_time)
    /\ previous_time' = total_time
    /\ total_time' = IF before_start THEN total_time ELSE reading
    /\ panicked' = TRUE
    /\ last' = Op("time_reversed", DurationDefault, event_trigger_time, FALSE,
                  current_time, previous_music_time, <<>>)
    /\ UNCHANGED <<twin, tempo, time_signature, current_time, event_trigger_time,
                   event_trigger_target, previous_music_time, state, end_time,
                   runner_pc, triggers, sets>>

\* set_music_timer ignoring a time that the time signature does not allow
SetMusicTimer_validated(time) ==
    /\ ~panicked
    /\ current_time' =
           IF /\ time.beat \in 1..time_signature.numerator
              /\ time.beat_interval \in 1..(INTERVAL_RESOLUTION \div 2)
           THEN time ELSE current_time
    /\ sets' = sets + 1
    /\ last' = [Op("set_music_timer", DurationDefault, event_trigger_time, FALSE,
                   current_time, previous_music_time, <<>>) EXCEPT !.time = time]
    /\ UNCHANGED <<tempo, time_signature, total_time, previous_time, event_trigger_time,
                   event_trigger_target, previous_music_time, state, end_time,
                   runner_pc, panicked, triggers>>

\* set_music_timer
SetMusicTimer(time) ==
    /\ ~panicked
    /\ current_time' = time
    /\ sets' = sets + 1
    /\ last' = [Op("set_music_timer", DurationDefault, event_trigger_time, FALSE,
                   current_time, previous_music_time, <<>>) EXCEPT !.time = time]
    /\ UNCHANGED <<tempo, time_signature, total_time, previous_time, event_trigger_time,
                   event_trigger_target, previous_music_time, state, end_time,
                   runner_pc, panicked, triggers>>

get_beat_interval_duration == event_trigger_target

get_current_time == current_time

-----------------------------------------------------------------------------
(* Spec: an engine under any use of its interface *)

\* (numerator, denominator, bpm) of the engines explored
Configs == {<<1, 4, 60>>, <<3, 4, 155>>}

\* the times between two clock readings
Deltas == {DurTimes(DurHalf(event_trigger_target), j) : j \in 0..MaxDelta}

\* the times handed to set_music_timer
SetTimes ==
    {MusicTime(3, 2, 1),
     MusicTime(1, 1, 8),
     MusicTime(2, time_signature.numerator, 8),
     MusicTime(U16 - 1, time_signature.numerator, 8)}

Init == \E c \in Configs : New(c[1], c[2], c[3])

DoPulse ==
    \E delta \in Deltas :
        triggers < MaxTriggers /\ Pulse(delta) /\ UNCHANGED twin

DoPulseOverflow == \E delta \in Deltas : PulseOverflow(delta)

DoPulseTimeReversed ==
    \E before_start \in BOOLEAN : PulseTimeReversed(before_start, DurationDefault)

DoSetMusicTimer ==
    \E time \in SetTimes :
        sets < MaxSets /\ SetMusicTimer(time) /\ UNCHANGED twin

Next == DoPulse \/ DoPulseOverflow \/ DoPulseTimeReversed \/ DoSetMusicTimer

Spec == Init /\ [][Next]_vars

-----------------------------------------------------------------------------
(* SpecRun: performance_runner of tests/lib_interface.rs *)

\* (numerator, denominator, bpm) of test_performance_example, test_standard
\* and test_odd; the end time is MusicTime(4, numerator, 8)
RunnerConfigs == {<<3, 4, 155>>, <<4, 4, 120>>, <<7, 8, 120>>}

sleep_duration == DurHalf(get_beat_interval_duration)

\* thread::sleep returns after sleep_duration or later
RunnerDeltas == {DurTimes(sleep_duration, j) : j \in 1..MaxSleeps}

RunnerInit == \E c \in RunnerConfigs : New(c[1], c[2], c[3])

\* one turn of the loop
RunnerPulse ==
    /\ runner_pc = "loop"
    /\ partial_lt(state.current_time, end_time)
    /\ \E delta \in RunnerDeltas : Pulse(delta)
    /\ UNCHANGED twin

\* the loop ends
RunnerExit ==
    /\ runner_pc = "loop"
    /\ ~partial_lt(state.current_time, end_time)
    /\ runner_pc' = "done"
    /\ UNCHANGED <<twin, tempo, time_signature, current_time, total_time, previous_time,
                   event_trigger_time, event_trigger_target, previous_music_time,
                   state, end_time, panicked, triggers, sets, last>>

RunnerNext == RunnerPulse \/ RunnerExit

SpecRun == RunnerInit /\ [][RunnerNext]_vars

-----------------------------------------------------------------------------
(* SpecDrift: the loops of tests/time_drift.rs *)

\* (numerator, denominator, bpm) of test_drift_60bpm and test_drift_140bpm;
\* both run until MusicTime(3, 1, 1)
DriftConfigs == {<<4, 4, 60>>, <<3, 4, 140>>}

\* Duration::from_millis(1000 / 60)
target_sleep_duration == Duration(0, (1000 \div 60) * 1000000)

\* the delays between two pulses: irregular, none longer than the target
DriftDeltas ==
    {d \in {DurTimes(target_sleep_duration, j) : j \in 0..MaxDriftSleeps} :
        DurGe(event_trigger_target, d)}

DriftInit == \E c \in DriftConfigs : NewUntil(c[1], c[2], c[3], MusicTime(3, 1, 1))

\* one turn of the loop
DriftPulse ==
    /\ runner_pc = "loop"
    /\ partial_lt(get_current_time, end_time)
    /\ \E delta \in DriftDeltas : Pulse(delta)
    /\ UNCHANGED twin

\* the loop ends
DriftExit ==
    /\ runner_pc = "loop"
    /\ ~partial_lt(get_current_time, end_time)
    /\ runner_pc' = "done"
    /\ UNCHANGED <<twin, tempo, time_signature, current_time, total_time, previous_time,
                   event_trigger_time, event_trigger_target, previous_music_time,
                   state, end_time, panicked, triggers, sets, last>>

DriftNext == DriftPulse \/ DriftExit

SpecDrift == DriftInit /\ [][DriftNext]_vars

\* the duration the tests expect: the trigger target times 8 * numerator * 2
calculated_duration ==
    DurMul(get_beat_interval_duration, 8 * time_signature.numerator * 2)

-----------------------------------------------------------------------------
(* SpecTime: advance_beat and advance_beat_interval applied to MusicTime
   values.  The value is current_time, the signature time_signature; the
   variables of the engine keep the values of a new engine. *)

TimeBars == {0, 1, 2, U16 - 2, U16 - 1}

\* MusicTime::new takes any bar, beat and beat interval
Times ==
    {MusicTime(bar, beat, beat_interval) :
        bar \in TimeBars, beat \in 0..MaxBeat,
        beat_interval \in 0..(INTERVAL_RESOLUTION \div 2 + 1)}

\* TimeSignature::new takes any numerator
Signatures == {TimeSignature(numerator, 4) : numerator \in 0..MaxNumerator}

\* the variables of the engine, which the operations on a MusicTime leave alone
EngineIdle ==
    /\ twin = TwinNew(60)
    /\ tempo = 60
    /\ event_trigger_target = beat_interval_target_frames(60)
    /\ total_time = DurationDefault
    /\ previous_time = DurationDefault
    /\ event_trigger_time = event_trigger_target
    /\ previous_music_time = Sentinel
    /\ state = PerformanceStateNew
    /\ runner_pc = "loop"
    /\ sets = 0

TimeInit ==
    \E t \in Times, sig \in Signatures :
        /\ time_signature = sig
        /\ current_time = t
        /\ end_time = t
        /\ panicked = FALSE
        /\ triggers = 0
        /\ last = TimeOp("new", t, t, "none")
        /\ EngineIdle

\* MusicTime::advance_beat returns
AdvanceBeat ==
    /\ ~panicked
    /\ triggers < MaxAdvances
    /\ current_time' = advance_beat(current_time, time_signature)
    /\ triggers' = triggers + 1
    /\ last' = TimeOp("advance_beat", current_time, Sentinel, "none")
    /\ UNCHANGED <<twin, tempo, time_signature, total_time, previous_time, event_trigger_time,
                   event_trigger_target, previous_music_time, state, end_time,
                   runner_pc, panicked, sets>>

\* MusicTime::advance_beat in a build with overflow checks, the bar
\* overflowing: the beat is reset when `self.bar += 1` panics
AdvanceBeatOverflow ==
    /\ ~panicked
    /\ triggers < MaxAdvances
    /\ advance_beat_overflows(current_time, time_signature)
    /\ current_time' = [current_time EXCEPT !.beat = 1]
    /\ panicked' = TRUE
    /\ last' = TimeOp("advance_beat", current_time, Sentinel, "none")
    /\ UNCHANGED <<twin, tempo, time_signature, total_time, previous_time, event_trigger_time,
                   event_trigger_target, previous_music_time, state, end_time,
                   runner_pc, triggers, sets>>

\* MusicTime::advance_beat_interval returns
AdvanceBeatInterval ==
    /\ ~panicked
    /\ triggers < MaxAdvances
    /\ current_time' = advance_beat_interval(current_time, time_signature)
    /\ triggers' = triggers + 1
    /\ last' = TimeOp("advance_beat_interval", current_time, Sentinel, "none")
    /\ UNCHANGED <<twin, tempo, time_signature, total_time, previous_time, event_trigger_time,
                   event_trigger_target, previous_music_time, state, end_time,
                   runner_pc, panicked, sets>>

\* MusicTime::advance_beat_interval in a build with overflow checks, the bar
\* overflowing
AdvanceBeatIntervalOverflow ==
    /\ ~panicked
    /\ triggers < MaxAdvances
    /\ advance_overflows(current_time, time_signature)
    /\ current_time' = [current_time EXCEPT !.beat_interval = 1, !.beat = 1]
    /\ panicked' = TRUE
    /\ last' = TimeOp("advance_beat_interval", current_time, Sentinel, "none")
    /\ UNCHANGED <<twin, tempo, time_signature, total_time, previous_time, event_trigger_time,
                   event_trigger_target, previous_music_time, state, end_time,
                   runner_pc, triggers, sets>>

TimeNext ==
    \/ AdvanceBeat
    \/ AdvanceBeatOverflow
    \/ AdvanceBeatInterval
    \/ AdvanceBeatIntervalOverflow

SpecTime == TimeInit /\ [][TimeNext]_vars

-----------------------------------------------------------------------------
(* SpecCounter: a MusicTimeCounter, whose advance_beat and
   advance_beat_interval hand its time and signature to those of MusicTime *)

\* MusicTimeCounter::new
CounterInit ==
    \E sig \in Signatures :
        /\ time_signature = sig
        /\ current_time = MusicTime(1, 1, 1)
        /\ end_time = MusicTime(1, 1, 1)
        /\ panicked = FALSE
        /\ triggers = 0
        /\ last = TimeOp("new", Sentinel, Sentinel, "none")
        /\ EngineIdle

\* MusicTimeCounter::set_current_time
SetCurrentTime(time) ==
    /\ ~panicked
    /\ sets < MaxSets
    /\ current_time' = time
    /\ sets' = sets + 1
    /\ last' = TimeOp("set_current_time", current_time, time, "none")
    /\ UNCHANGED <<twin, tempo, time_signature, total_time, previous_time, event_trigger_time,
                   event_trigger_target, previous_music_time, state, end_time,
                   runner_pc, panicked, triggers>>

\* the times handed to set_current_time, which takes any MusicTime
CounterSetTimes ==
    {MusicTime(0, 0, 0),
     MusicTime(1, time_signature.numerator + 1, 1),
     MusicTime(2, time_signature.numerator, 8),
     MusicTime(1, 1, INTERVAL_RESOLUTION \div 2 + 1),
     MusicTime(U16 - 1, time_signature.numerator, 8)}

CounterNext ==
    \/ AdvanceBeat
    \/ AdvanceBeatOverflow
    \/ AdvanceBeatInterval
    \/ AdvanceBeatIntervalOverflow
    \/ \E time \in CounterSetTimes : SetCurrentTime(time)

SpecCounter == CounterInit /\ [][CounterNext]_vars

-----------------------------------------------------------------------------
(* SpecTempo: engines created in 4/4 at every whole tempo, the tempo
   conversions of their counter, and the first pulses of their life *)

Bpms == 30..MaxBpm

TempoInit == \E bpm \in Bpms : New(4, 4, bpm)

\* MusicTimeCounter::beat_target_frames(bpm)
BeatTargetFrames ==
    /\ ~panicked
    /\ last' = TempoOp("beat_target_frames", beat_target_frames(tempo))
    /\ UNCHANGED <<twin, tempo, time_signature, current_time, total_time,
                   previous_time, event_trigger_time, event_trigger_target,
                   previous_music_time, state, end_time, runner_pc, panicked,
                   triggers, sets>>

\* MusicTimeCounter::beat_interval_target_frames(bpm)
BeatIntervalTargetFrames ==
    /\ ~panicked
    /\ last' = TempoOp("beat_interval_target_frames",
                       beat_interval_target_frames(tempo))
    /\ UNCHANGED <<twin, tempo, time_signature, current_time, total_time,
                   previous_time, event_trigger_time, event_trigger_target,
                   previous_music_time, state, end_time, runner_pc, panicked,
                   triggers, sets>>

\* a pulse one trigger target after the previous one
TempoPulse ==
    triggers < MaxTempoPulses /\ Pulse(event_trigger_target) /\ UNCHANGED twin

TempoSetMusicTimer ==
    sets < MaxSets /\ SetMusicTimer(MusicTime(3, 2, 1)) /\ UNCHANGED twin

TempoNext ==
    \/ BeatTargetFrames
    \/ BeatIntervalTargetFrames
    \/ TempoPulse
    \/ TempoSetMusicTimer

SpecTempo == TempoInit /\ [][TempoNext]_vars

-----------------------------------------------------------------------------
(* SpecSignature: time signatures, and is_valid applied to them *)

\* the numerators from 0 to MaxNumerator and the largest one
SignatureNumerators == 0..MaxNumerator \cup {U8 - 1}

\* TimeSignature::new(numerator, denominator), with every denominator
SignatureInit ==
    \E numerator \in SignatureNumerators, denominator \in 0..(U8 - 1) :
        /\ time_signature = TimeSignature(numerator, denominator)
        /\ current_time = MusicTimeDefault
        /\ end_time = MusicTimeDefault
        /\ panicked = FALSE
        /\ triggers = 0
        /\ last = TimeOp("new", Sentinel, Sentinel, "none")
        /\ EngineIdle

\* TimeSignature::is_valid
IsValid ==
    /\ last' = TimeOp("is_valid", Sentinel, Sentinel,
                      IF is_valid(time_signature) THEN "true" ELSE "false")
    /\ UNCHANGED <<twin, tempo, time_signature, current_time, total_time,
                   previous_time, event_trigger_time, event_trigger_target,
                   previous_music_time, state, end_time, runner_pc, panicked,
                   triggers, sets>>

SignatureNext == IsValid

SpecSignature == SignatureInit /\ [][SignatureNext]_vars

-----------------------------------------------------------------------------
(* SpecOrder: two MusicTime values compared, self being current_time and
   other being end_time as in the loops of the tests. *)

\* small bars, the bars around u16::MAX / 100, and u16::MAX
OrderBars ==
    {0, 1, 2, U16 \div 100 - 1, U16 \div 100, U16 \div 100 + 1, U16 - 1}

\* beats and beat intervals of one decimal digit
OrderTimes ==
    {MusicTime(bar, beat, beat_interval) :
        bar \in OrderBars, beat \in {0, 1, 9}, beat_interval \in {0, 1, 9}}

OrderInit ==
    \E self \in OrderTimes, other \in OrderTimes :
        /\ time_signature = TimeSignature(4, 4)
        /\ current_time = self
        /\ end_time = other
        /\ panicked = FALSE
        /\ triggers = 0
        /\ last = TimeOp("new", self, other, "none")
        /\ EngineIdle

\* self.partial_cmp(other) returns
Compare ==
    /\ ~panicked
    /\ last' = TimeOp("partial_cmp", current_time, end_time,
                      partial_cmp(current_time, end_time))
    /\ UNCHANGED <<twin, tempo, time_signature, current_time, total_time, previous_time,
                   event_trigger_time, event_trigger_target, previous_music_time,
                   state, end_time, runner_pc, panicked, triggers, sets>>

\* self.partial_cmp(other) in a build with overflow checks, a sum overflowing
CompareOverflow ==
    /\ ~panicked
    /\ time_sum_overflows(end_time) \/ time_sum_overflows(current_time)
    /\ panicked' = TRUE
    /\ last' = TimeOp("partial_cmp", current_time, end_time, "none")
    /\ UNCHANGED <<twin, tempo, time_signature, current_time, total_time, previous_time,
                   event_trigger_time, event_trigger_target, previous_music_time,
                   state, end_time, runner_pc, triggers, sets>>

OrderNext == Compare \/ CompareOverflow

SpecOrder == OrderInit /\ [][OrderNext]_vars

-----------------------------------------------------------------------------
(* SpecBeats: engines of create_performance_engine driven by pulses alone *)

\* (numerator, denominator, bpm): one and two beats in the bar
BeatsConfigs == {<<1, 4, 60>>, <<2, 4, 120>>}

BeatsInit == \E c \in BeatsConfigs : New(c[1], c[2], c[3])

BeatsPulse ==
    \E delta \in Deltas :
        triggers < MaxBeatTriggers /\ Pulse(delta) /\ UNCHANGED twin

BeatsNext == BeatsPulse

SpecBeats == BeatsInit /\ [][BeatsNext]_vars

-----------------------------------------------------------------------------
(* SpecTwin: two engines given the same calls, each with its own clock *)

TwinConfigs == {<<3, 4, 155>>}

TwinDeltas == {DurTimes(DurHalf(event_trigger_target), j) : j \in 0..MaxTwinDelta}

TwinSetTimes == {MusicTime(3, 2, 1), MusicTime(1, 3, 8)}

TwinInit == \E c \in TwinConfigs : New(c[1], c[2], c[3])

\* both engines are pulsed, the clock of each having moved on by its own delta
TwinPulse ==
    \E delta \in TwinDeltas, twin_delta \in TwinDeltas :
        /\ triggers < MaxTwinTriggers
        /\ twin.triggers < MaxTwinTriggers
        /\ Pulse(delta)
        /\ twin' = [TwinPulsed(twin, twin_delta) EXCEPT
                       !.first_calls = IF last'.advanced
                                       THEN Append(@, last'.calls) ELSE @]

\* set_music_timer is called with the same time on both engines
TwinSetMusicTimer ==
    \E time \in TwinSetTimes :
        /\ sets < MaxSets
        /\ SetMusicTimer(time)
        /\ twin' = [twin EXCEPT !.current_time = time,
                                !.aligned = @ /\ triggers = twin.triggers]

TwinNext == TwinPulse \/ TwinSetMusicTimer

SpecTwin == TwinInit /\ [][TwinNext]_vars

-----------------------------------------------------------------------------
(* Properties of pulse *)

\* the latest operation is a pulse that returned
Pulsed == last.op = "pulse"

\* the latest operation is a pulse that returned and advanced the counter
Triggered == last.op = "pulse" /\ last.advanced

\* the accumulated trigger time of the latest pulse after adding its delta
Accumulated == DurAdd(last.accumulated, last.delta)

HasCall(calls, callback) == \E i \in 1..Len(calls) : calls[i].callback = callback

Kinds(calls) == [i \in 1..Len(calls) |-> calls[i].callback]

\* C1: a pulse that returns advances the counter by exactly one sub-beat if
\* the accumulated trigger time after adding the delta is >= the trigger
\* target, however far it overshoots, and leaves the counter alone otherwise.
C1_OneSubBeatPerPulse ==
    Pulsed =>
        IF DurGe(Accumulated, event_trigger_target)
        THEN current_time =
                 advance_beat_interval(last.cached_current_time, time_signature)
        ELSE current_time = last.cached_current_time

\* C1 witness: a pulse whose accumulated time reached twice the target.
C1_Witness ==
    /\ Pulsed
    /\ DurGe(Accumulated, DurTimes(event_trigger_target, 2))
    /\ current_time = advance_beat_interval(last.cached_current_time, time_signature)

\* C2: after a triggering pulse the accumulated trigger time plus the target
\* is the accumulated time before the pulse plus the delta (the whole excess
\* is kept); after a pulse that does not trigger it is accumulated + delta.
C2_ExcessKept ==
    Pulsed =>
        IF last.advanced
        THEN DurAdd(event_trigger_time, event_trigger_target) = Accumulated
        ELSE event_trigger_time = Accumulated

\* C2 witness: a triggering pulse that left an excess.
C2_Witness == Triggered /\ event_trigger_time # DurationDefault

\* C3: a triggering pulse makes its callbacks in the order on_beat_interval,
\* on_beat, on_bar, each at most once and on_beat_interval always, and the
\* observer has received them when the pulse returns.
C3_CallbackOrder ==
    Triggered =>
        /\ Kinds(last.calls) \in
               {<<"on_beat_interval">>,
                <<"on_beat_interval", "on_beat">>,
                <<"on_beat_interval", "on_bar">>,
                <<"on_beat_interval", "on_beat", "on_bar">>}
        /\ Len(state.music_events) >= Len(last.calls)
        /\ SubSeq(state.music_events,
                  Len(state.music_events) - Len(last.calls) + 1,
                  Len(state.music_events)) = last.calls

\* C3 witness: a pulse that made all three callbacks.
C3_Witness == Triggered /\ Len(last.calls) = 3

\* C4: in a triggering pulse on_beat_interval receives the counter's time
\* before the advance; on_beat and on_bar receive the time after it.
C4_CallbackTimes ==
    Triggered =>
        /\ current_time # last.cached_current_time
        /\ \A i \in 1..Len(last.calls) :
               last.calls[i].time =
                   IF last.calls[i].callback = "on_beat_interval"
                   THEN last.cached_current_time
                   ELSE current_time

\* C4 witness: a pulse that called on_beat_interval, on_beat and on_bar after
\* a set_music_timer moved the counter.
C4_Witness ==
    /\ Triggered
    /\ sets > 0
    /\ HasCall(last.calls, "on_beat")
    /\ HasCall(last.calls, "on_bar")

\* C5 (as claimed): in a triggering pulse on_bar is called iff the counter's
\* bar after the advance differs from the bar before it.
C5_OnBarIffBarChanged ==
    Triggered =>
        (HasCall(last.calls, "on_bar")
            <=> current_time.bar # last.cached_current_time.bar)

-----------------------------------------------------------------------------
(* Properties of a run of performance_runner *)

Events == state.music_events

\* C8 (as claimed): every time passed to on_beat is the start of a beat, and
\* the eight callbacks before it are the on_beat_interval callbacks of the
\* beat that just ended.
C8_OnBeatAtBeatStart ==
    \A i \in 1..Len(Events) :
        Events[i].callback = "on_beat" =>
            /\ Events[i].time.beat_interval = 1
            /\ i > 8
            /\ \A j \in 1..8 :
                   /\ Events[i - j].callback = "on_beat_interval"
                   /\ Events[i - j].time.beat_interval = 9 - j
                   /\ Events[i - j].time.bar = Events[i - 1].time.bar
                   /\ Events[i - j].time.beat = Events[i - 1].time.beat
            /\ advance_beat_interval(Events[i - 1].time, time_signature)
                   = Events[i].time

\* C9 (as claimed): when the loop has ended, on_beat_interval has been called
\* 8 * numerator * 4 times.
C9_SubBeatCount ==
    runner_pc = "done" =>
        state.count_beat_intervals = 8 * time_signature.numerator * 4

\* C10 (as claimed): when the loop has ended, on_bar has been called 4 times.
C10_BarCount == runner_pc = "done" => state.count_bars = 4

-----------------------------------------------------------------------------
(* Properties of performance_runner, continued *)

\* C11: when the loop of performance_runner has ended, for a new engine in
\* 3/4, 4/4 or 7/8 and whatever the delays between pulses, the observer has
\* counted exactly numerator * 4 on_beat callbacks (12, 16, 28).
C11_BeatCount ==
    runner_pc = "done" => state.count_beats = time_signature.numerator * 4

\* C11 witness: the run in 7/8 has ended with 28 on_beat callbacks counted.
C11_Witness ==
    /\ runner_pc = "done"
    /\ time_signature.numerator = 7
    /\ state.count_beats = 28

\* C12: the loop of performance_runner ends, the observer is never handed a
\* time after MusicTime(4, numerator, 8), and the last time it was handed
\* when the loop has ended is exactly MusicTime(4, numerator, 8).  The loop
\* ends: until it has ended a turn can always be made, every turn moves the
\* clock reading forward by a sleep duration or more, and the counter is
\* advanced fewer than 32 * numerator times (a pulse that does not advance it
\* has accumulated less than the target, see C1).
C12_EndsAtEndTime ==
    /\ [](runner_pc = "done" \/ ENABLED RunnerNext)
    /\ [][runner_pc = "loop" =>
             \/ runner_pc' = "done"
             \/ DurGe(total_time', DurAdd(total_time, sleep_duration))]_vars
    /\ [](triggers < 32 * time_signature.numerator)
    /\ [](~partial_lt(end_time, state.current_time))
    /\ [](runner_pc = "done" => state.current_time = end_time)

\* C12 witness: the run in 3/4 has ended with the observer at (4, 3, 8).
C12_Witness ==
    /\ runner_pc = "done"
    /\ time_signature.numerator = 3
    /\ state.current_time = MusicTime(4, 3, 8)
    /\ last.calls[Len(last.calls)].time = MusicTime(4, 3, 8)

-----------------------------------------------------------------------------
(* Properties of the drift tests *)

\* C13: when the loop of a drift test has ended (the counter was brought to
\* MusicTime(3, 1, 1), which is 64 advances after (1, 1, 1) in 4/4 and 48 in
\* 3/4), the time since construction read by the last pulse differs from
\* the trigger target times that number of advances by less than 50 ms.
C13_DriftBound ==
    runner_pc = "done" =>
        /\ DurLt(calculated_duration, DurAdd(total_time, Duration(0, 50000000)))
        /\ DurLt(total_time, DurAdd(calculated_duration, Duration(0, 50000000)))

-----------------------------------------------------------------------------
(* Properties of pulse and set_music_timer, continued *)

\* C14: a pulse whose accumulated trigger time stays below the trigger
\* target calls no callback and leaves the counter's time, the previous
\* music time and the observer as they were; it changes only the total
\* time, the previous total time and the accumulated trigger time.
C14_NoTriggerNoChange ==
    [][(/\ last'.op = "pulse"
        /\ DurLt(DurAdd(event_trigger_time, last'.delta), event_trigger_target))
       => /\ last'.calls = <<>>
          /\ UNCHANGED <<current_time, previous_music_time, state,
                         time_signature, event_trigger_target>>
          /\ previous_time' = total_time
          /\ total_time' = DurAdd(total_time, last'.delta)
          /\ event_trigger_time' = DurAdd(event_trigger_time, last'.delta)]_vars

\* C14 witness: after the counter was advanced, a pulse that came a non-zero
\* delta later and left the accumulated time below the target.
C14_Witness ==
    /\ Pulsed
    /\ ~last.advanced
    /\ triggers >= 1
    /\ last.delta # DurationDefault
    /\ DurLt(event_trigger_time, event_trigger_target)

\* C15: a pulse whose clock reading is earlier than the previous reading, or
\* earlier than the start time, fails fatally: no callback is called, the
\* counter is not advanced and the accumulated trigger time is not changed.
C15_TimeReversedFails ==
    [][last'.op = "time_reversed"
       => /\ panicked'
          /\ last'.calls = <<>>
          /\ UNCHANGED <<current_time, previous_music_time, state,
                         event_trigger_time, triggers>>]_vars

\* C15 witness: the engine has failed on a reading earlier than the previous
\* one, made after the counter was advanced.
C15_Witness ==
    /\ last.op = "time_reversed"
    /\ panicked
    /\ triggers >= 1
    /\ DurLt(total_time, previous_time)

\* C16: set_music_timer(t) makes the current time t whatever t is and leaves
\* the accumulated trigger time, the total time, the previous total time,
\* the trigger target and the previous music time as they were; the pulses
\* after it keep t until one advances the counter, and that pulse hands t to
\* on_beat_interval and advances the counter from t.
C16_SetTime ==
    /\ [][last'.op = "set_music_timer"
          => /\ current_time' = last'.time
             /\ UNCHANGED <<event_trigger_time, total_time, previous_time,
                            event_trigger_target, previous_music_time,
                            state>>]_vars
    /\ [][(last'.op = "pulse" /\ ~last'.advanced)
          => current_time' = current_time]_vars
    /\ [][(last'.op = "pulse" /\ last'.advanced)
          => /\ last'.calls[1] = Call("on_beat_interval", current_time)
             /\ current_time' =
                    advance_beat_interval(current_time, time_signature)]_vars

\* C16 witness: a time whose beat is beyond the numerator was set, and the
\* next pulse that advanced the counter handed it to on_beat_interval.
C16_Witness ==
    /\ sets = 1
    /\ Triggered
    /\ last.cached_current_time = MusicTime(3, 2, 1)
    /\ time_signature.numerator = 1
    /\ last.calls[1].time = MusicTime(3, 2, 1)
    /\ current_time = MusicTime(3, 2, 2)

-----------------------------------------------------------------------------
(* Properties of MusicTime *)

\* C17: advance_beat applied to any MusicTime with any signature returns,
\* and if the beat was >= the numerator the beat is 1 and the bar is the
\* bar plus one, otherwise the beat is the beat plus one and the bar is
\* unchanged; the beat interval is unchanged in both cases.
C17_AdvanceBeat ==
    last.op = "advance_beat" =>
        LET t == last.cached_current_time
        IN  /\ ~panicked
            /\ current_time =
                   IF t.beat >= time_signature.numerator
                   THEN MusicTime(t.bar + 1, 1, t.beat_interval)
                   ELSE MusicTime(t.bar, t.beat + 1, t.beat_interval)

\* C18: advance_beat applied to a MusicTime whose beat is in 1..numerator,
\* whatever its bar and however many applications came before, returns and
\* never makes the bar smaller, and the bar grows, by exactly one, precisely
\* when the beat was the numerator.
C18_BarNeverSmaller ==
    [][(/\ last'.op = "advance_beat"
        /\ current_time.beat \in 1..time_signature.numerator)
       => /\ ~panicked'
          /\ current_time'.bar >= current_time.bar
          /\ IF current_time.beat = time_signature.numerator
             THEN current_time'.bar = current_time.bar + 1
             ELSE current_time'.bar = current_time.bar]_vars

\* advance_beat_interval applied n times
RECURSIVE advance_beat_interval_times(_, _, _)
advance_beat_interval_times(t, sig, n) ==
    IF n = 0 THEN t
    ELSE advance_beat_interval(advance_beat_interval_times(t, sig, n - 1), sig)

\* C19: advance_beat_interval, when the beat interval is >= 8, sets it to 1
\* and does one advance_beat, and otherwise adds one to it and leaves bar
\* and beat unchanged; so from a beat interval of 1, seven applications
\* give 8 in the same beat and the eighth gives 1 in the beat advance_beat
\* moves to.
C19_AdvanceBeatInterval ==
    /\ (last.op = "advance_beat_interval" /\ ~panicked) =>
           LET t == last.cached_current_time
           IN  current_time =
                   IF t.beat_interval >= 8
                   THEN advance_beat(MusicTime(t.bar, t.beat, 1), time_signature)
                   ELSE MusicTime(t.bar, t.beat, t.beat_interval + 1)
    /\ current_time.beat_interval = 1 =>
           /\ \A n \in 0..7 :
                  advance_beat_interval_times(current_time, time_signature, n)
                      = MusicTime(current_time.bar, current_time.beat, n + 1)
           /\ advance_beat_interval_times(current_time, time_signature, 8)
                  = advance_beat(current_time, time_signature)

\* C19 witness: an application to a time with beat interval 8, in a beat
\* before the last of the bar, has moved it to interval 1 of the next beat.
C19_Witness ==
    /\ last.op = "advance_beat_interval"
    /\ ~panicked
    /\ last.cached_current_time.beat_interval = 8
    /\ last.cached_current_time.beat < time_signature.numerator
    /\ current_time = MusicTime(last.cached_current_time.bar,
                                last.cached_current_time.beat + 1, 1)

\* the order of two times by bar, then beat, then beat interval
LexCmp(self, other) ==
    IF self = other THEN "Equal"
    ELSE IF \/ self.bar < other.bar
            \/ self.bar = other.bar /\ self.beat < other.beat
            \/ /\ self.bar = other.bar
               /\ self.beat = other.beat
               /\ self.beat_interval < other.beat_interval
         THEN "Less"
         ELSE "Greater"

\* C20: the comparison of two MusicTime values whose beat and beat interval
\* are <= 9, whatever their bars, returns, and its result is their order by
\* bar, then beat, then beat interval (a strict total order).
C20_OrderIsLexicographic ==
    last.op = "partial_cmp" =>
        /\ ~panicked
        /\ last.result = LexCmp(current_time, end_time)

-----------------------------------------------------------------------------
(* Properties of MusicTimeCounter *)

\* C21: in every state a MusicTimeCounter reaches by construction,
\* advance_beat, advance_beat_interval and set_current_time, the beat of its
\* current time is in 1..numerator of its signature (stated for the
\* signatures that have such a beat, those with a numerator >= 1).
C21_BeatInRange ==
    time_signature.numerator >= 1 =>
        current_time.beat \in 1..time_signature.numerator

\* C21 amended: for a counter built with a numerator >= 1, as long as
\* set_current_time was not called, the beat of the current time is in
\* 1..numerator after any advance_beat and advance_beat_interval.
C21_BeatInRangeUnlessSet ==
    (time_signature.numerator >= 1 /\ sets = 0) =>
        current_time.beat \in 1..time_signature.numerator

\* C21 witness: two advances have brought a counter in 3/4 to the last beat
\* of the bar, no time having been set.
C21_Witness ==
    /\ sets = 0
    /\ triggers = 2
    /\ time_signature.numerator = 3
    /\ current_time.beat = 3

-----------------------------------------------------------------------------
(* Properties of the tempo conversions *)

RECURSIVE Pow10(_)
Pow10(n) == IF n = 0 THEN 1 ELSE 10 * Pow10(n - 1)

\* the first n decimal digits of r / d, for r < d
RECURSIVE DecimalDigits(_, _, _)
DecimalDigits(r, d, n) ==
    IF n = 0 THEN 0
    ELSE ((r * 10) \div d) * Pow10(n - 1) + DecimalDigits((r * 10) % d, d, n - 1)

\* 60 / d seconds in exact arithmetic, cut to whole nanoseconds
ExactTruncated(d) == Duration(60 \div d, DecimalDigits(60 % d, d, 9))

DurAbsDiff(a, b) == IF DurGe(a, b) THEN DurSub(a, b) ELSE DurSub(b, a)

\* C22: beat_target_frames(bpm) is 60 / bpm seconds cut to whole
\* nanoseconds (so 1 s for 60 bpm and 750 ms for 80 bpm).
C22_BeatDurationExact ==
    last.op = "beat_target_frames" => last.duration = ExactTruncated(tempo)

\* C22 amended: beat_target_frames(bpm) is 60 / bpm computed in f32, times
\* 10^9 in f32, cut to whole nanoseconds: exactly 1 s for 60 bpm, exactly
\* 750 ms for 80 bpm, and less than 128 ns away from the exact 60 / bpm
\* seconds for every whole bpm.
C22_BeatDurationF32 ==
    last.op = "beat_target_frames" =>
        /\ tempo = 60 => last.duration = Duration(1, 0)
        /\ tempo = 80 => last.duration = Duration(0, 750000000)
        /\ DurLt(DurAbsDiff(last.duration, ExactTruncated(tempo)),
                 Duration(0, 128))

\* C22 witness: the conversion of 80 bpm has returned 750 ms.
C22_Witness ==
    /\ last.op = "beat_target_frames"
    /\ tempo = 80
    /\ last.duration = Duration(0, 750000000)

\* C23: beat_interval_target_frames(bpm) is (60 / bpm) / 8 seconds cut to
\* whole nanoseconds (125 ms for 60 bpm), and it is the value the engine
\* keeps as its trigger target and returns from get_beat_interval_duration
\* through all of its life.
C23_SubBeatDurationExact ==
    /\ last.op = "beat_interval_target_frames" =>
           last.duration = ExactTruncated(8 * tempo)
    /\ event_trigger_target = ExactTruncated(8 * tempo)
    /\ get_beat_interval_duration = event_trigger_target

\* C23 amended: beat_interval_target_frames(bpm) is (60 / bpm) / 8 computed
\* in f32, times 10^9 in f32, cut to whole nanoseconds: exactly 125 ms for
\* 60 bpm and less than 16 ns away from the exact value for every whole
\* bpm; it is the value the engine keeps as its trigger target and returns
\* from get_beat_interval_duration through all of its life.
C23_SubBeatDurationF32 ==
    /\ last.op = "beat_interval_target_frames" =>
           last.duration = event_trigger_target
    /\ event_trigger_target = beat_interval_target_frames(tempo)
    /\ get_beat_interval_duration = event_trigger_target
    /\ tempo = 60 => event_trigger_target = Duration(0, 125000000)
    /\ DurLt(DurAbsDiff(event_trigger_target, ExactTruncated(8 * tempo)),
             Duration(0, 16))

\* C23 witness: an engine at 60 bpm that was pulsed and whose time was set
\* still has a trigger target of 125 ms.
C23_Witness ==
    /\ tempo = 60
    /\ triggers = MaxTempoPulses
    /\ sets = 1
    /\ get_beat_interval_duration = Duration(0, 125000000)

-----------------------------------------------------------------------------
(* Properties of TimeSignature *)

\* C24: every pair of u8 values makes a TimeSignature holding exactly these
\* values, and is_valid returns true for it iff the numerator is not 0 and
\* the denominator is one of the powers of two from 2 to 32.
C24_IsValid ==
    /\ time_signature.numerator \in 0..255
    /\ time_signature.denominator \in 0..255
    /\ last.op = "is_valid" =>
           (last.result = "true" <=>
               /\ time_signature.numerator >= 1
               /\ \E e \in 1..5 : time_signature.denominator = Pow2(e))
    /\ last.op = "is_valid" => last.result \in {"true", "false"}

\* C24 witness: is_valid has returned true for 255/32.
C24_Witness ==
    /\ last.op = "is_valid"
    /\ last.result = "true"
    /\ time_signature = TimeSignature(255, 32)

-----------------------------------------------------------------------------
(* Properties of a new engine *)

\* C25: a new engine has a total and a previous time of 0, an accumulated
\* trigger time equal to the trigger target, the current time (1, 1, 1) and
\* the previous music time (0, 0, 0); its first pulse advances the counter
\* whatever time has passed, and hands on_beat_interval the current time,
\* which is (1, 1, 1) unless another time was set.
C25_FirstPulseTriggers ==
    /\ [](last.op = "new" =>
             /\ total_time = DurationDefault
             /\ previous_time = DurationDefault
             /\ event_trigger_time = event_trigger_target
             /\ current_time = MusicTime(1, 1, 1)
             /\ previous_music_time = MusicTime(0, 0, 0))
    /\ [][(triggers = 0 /\ last'.op = "pulse")
          => /\ last'.advanced
             /\ triggers' = 1
             /\ last'.calls[1] = Call("on_beat_interval", current_time)
             /\ sets = 0 => last'.calls[1].time = MusicTime(1, 1, 1)]_vars

\* C25 witness: the first pulse of a new engine, made when no time had
\* passed, has handed (1, 1, 1) to on_beat_interval.
C25_Witness ==
    /\ Triggered
    /\ triggers = 1
    /\ sets = 0
    /\ total_time = DurationDefault
    /\ last.calls[1] = Call("on_beat_interval", MusicTime(1, 1, 1))
    /\ current_time = MusicTime(1, 1, 2)

-----------------------------------------------------------------------------
(* Properties of an engine driven by pulses alone *)

\* the time that follows t in the order by bar, beat and beat interval,
\* among the times with beat in 1..numerator and beat interval in 1..8
Successor(t, numerator) ==
    IF t.beat_interval < 8 THEN MusicTime(t.bar, t.beat, t.beat_interval + 1)
    ELSE IF t.beat < numerator THEN MusicTime(t.bar, t.beat + 1, 1)
    ELSE MusicTime(t.bar + 1, 1, 1)

\* C26: in an engine with a numerator >= 1 that is driven by pulses alone,
\* the bars staying below the u16 limit, the counter's time always has a
\* bar >= 1, a beat in 1..numerator and a beat interval in 1..8, and every
\* pulse that advances the counter moves it to the next such time.
C26_ValidTimesInOrder ==
    /\ current_time.bar >= 1
    /\ current_time.beat \in 1..time_signature.numerator
    /\ current_time.beat_interval \in 1..8
    /\ Triggered =>
           current_time =
               Successor(last.cached_current_time, time_signature.numerator)

\* C26 witness: a pulse has moved the counter from the last time of bar 1
\* to the first time of bar 2.
C26_Witness ==
    /\ Triggered
    /\ last.cached_current_time = MusicTime(1, time_signature.numerator, 8)
    /\ current_time = MusicTime(2, 1, 1)

\* C27: as long as the clock never goes back, set_music_timer calls
\* included, the accumulated time plus the target once per pulse that
\* advanced the counter equals the total time plus the target.
C27_Conservation ==
    ~panicked =>
        DurAdd(event_trigger_time, DurMul(event_trigger_target, triggers))
            = DurAdd(total_time, event_trigger_target)

\* C27 witness: after a set_music_timer call and three advancing pulses,
\* the last of them leaves part of a target accumulated.
C27_Witness ==
    /\ Triggered
    /\ ~panicked
    /\ sets = 1
    /\ triggers = 3
    /\ event_trigger_time # DurationDefault
    /\ DurLt(event_trigger_time, event_trigger_target)

\* C28: in the drift loop the target is positive and every delay between
\* two pulses is strictly below it; after every pulse the accumulated time
\* is strictly below the target.
C28_NothingPending ==
    /\ DurLt(DurationDefault, event_trigger_target)
    /\ Pulsed =>
           /\ DurLt(last.delta, event_trigger_target)
           /\ DurLt(event_trigger_time, event_trigger_target)

\* C28 witness: a pulse after a delay has advanced the counter for the
\* third time at least and leaves less than one sleep to the target.
C28_Witness ==
    /\ Triggered
    /\ triggers >= 3
    /\ last.delta # DurationDefault
    /\ DurLt(event_trigger_time, event_trigger_target)
    /\ DurGe(DurAdd(event_trigger_time, target_sleep_duration),
             event_trigger_target)

\* the largest number of targets the accumulated time is compared with
MaxDebt == 4

\* C29: a pulse that returns when the accumulated time is j targets or
\* more, j >= 1, advances the counter whatever its delta and leaves j - 1
\* targets or more accumulated; so each of the next j pulses advances the
\* counter.
C29_DeferredCatchUp ==
    [][\A j \in 1..MaxDebt :
          (/\ last'.op = "pulse"
           /\ DurGe(event_trigger_time, DurMul(event_trigger_target, j)))
          => /\ last'.advanced
             /\ triggers' = triggers + 1
             /\ DurGe(event_trigger_time',
                      DurMul(event_trigger_target, j - 1))]_vars

\* C29 witness: a pulse with a delta of zero, made with two targets or more
\* accumulated, has advanced the counter and leaves one target or more.
C29_Witness ==
    /\ Triggered
    /\ last.delta = DurationDefault
    /\ total_time = previous_time
    /\ triggers >= 3
    /\ DurGe(event_trigger_time, event_trigger_target)
    /\ DurGe(last.accumulated, DurMul(event_trigger_target, 2))

\* the time reached by m advances of the beat interval from (1, 1, 1); C30
\* checks each of its steps against advance_beat_interval
NthTime(m, numerator) ==
    MusicTime(1 + (m \div (8 * numerator)),
              1 + ((m \div 8) % numerator),
              1 + (m % 8))

\* C30: in a run of the performance loop, the k-th call of on_beat_interval
\* is handed the time reached by k - 1 advances of the beat interval from
\* (1, 1, 1), whatever the delays between the pulses.
C30_NoPositionSkipped ==
    /\ state.count_beat_intervals = triggers % U8
    /\ Triggered =>
           /\ last.calls[1] =
                  Call("on_beat_interval",
                       NthTime(triggers - 1, time_signature.numerator))
           /\ NthTime(0, time_signature.numerator) = MusicTime(1, 1, 1)
           /\ NthTime(triggers, time_signature.numerator) =
                  advance_beat_interval(
                      NthTime(triggers - 1, time_signature.numerator),
                      time_signature)
           /\ state.music_events[Len(state.music_events)
                                   - Len(last.calls) + 1] = last.calls[1]

\* C30 witness: the 20th call of on_beat_interval, after a pulse that came
\* late, is handed the time 19 advances after (1, 1, 1).
C30_Witness ==
    /\ Triggered
    /\ triggers = 20
    /\ time_signature.numerator = 3
    /\ DurGe(last.delta, event_trigger_target)
    /\ last.calls[1] = Call("on_beat_interval", MusicTime(1, 3, 4))

\* C31 (as claimed): in a new engine driven by pulses alone, after every
\* pulse that advances the counter previous_music_time is the counter's
\* time, and every such pulse but the first calls on_beat iff its advance
\* took the beat interval from 8 to 1.
C31_OnBeatIffRollover ==
    Triggered =>
        /\ previous_music_time = current_time
        /\ triggers >= 2 =>
               (HasCall(last.calls, "on_beat")
                   <=> /\ last.cached_current_time.beat_interval = 8
                       /\ current_time.beat_interval = 1)

-----------------------------------------------------------------------------
(* Properties of two engines given the same calls *)

\* the number of advancing pulses both engines have made
Common ==
    IF Len(twin.first_calls) <= Len(twin.calls)
    THEN Len(twin.first_calls) ELSE Len(twin.calls)

\* the calls of the n-th advancing pulse are the same in both engines, for
\* every n both have reached
SameCalls == \A n \in 1..Common : twin.first_calls[n] = twin.calls[n]

\* C32 (as claimed): two engines with the same signature that are given the
\* same set_music_timer calls among the same number of pulses make the same
\* calls of the observer, in kind, order and time, up to any number of
\* advancing pulses, whatever the deltas of their clocks.
C32_TimingIndependence == SameCalls

\* C32 amended: they make the same calls if every set_music_timer call
\* found both counters advanced the same number of times, in particular if
\* set_music_timer is not called.
C32_TimingIndependenceAligned ==
    /\ sets = 0 => twin.aligned
    /\ twin.aligned => SameCalls

\* C32 witness: after a set_music_timer call that found both counters
\* advanced once, both engines have advanced three times, their clocks at
\* different readings, and have made the same calls.
C32_Witness ==
    /\ sets = 1
    /\ twin.aligned
    /\ triggers = 3
    /\ twin.triggers = 3
    /\ total_time # twin.total_time
    /\ twin.calls = twin.first_calls
    /\ twin.calls[2][1].time \in TwinSetTimes
====
